---- MODULE Spec2Model ----
(***************************************************************************)
(* Double-booking prevention for appointment slots: the appointments table *)
(* with its partial unique index, the booking insert, the status updates,  *)
(* the booked-slot lookup and the time selector / admin dialog that call   *)
(* them.                                                                   *)
(***************************************************************************)
EXTENDS Integers, Sequences, FiniteSets, TLC

\* ------------------------------------------------------------------ bounds
NumUsers == 2
NumProfessionals == 2
NumDates == 1
NumSlots == 2
MaxRows == 3
MaxBookings == 2
MaxFetches == 2

Admin == 0
Users == 1..NumUsers
Callers == Users \cup {Admin}
Professionals == 1..NumProfessionals
Dates == 1..NumDates

\* ------------------------------------------------------- program constants
\* the hourly catalog, each time a string of five characters
timeSlots ==
  << <<"0","9",":","0","0">>, <<"1","0",":","0","0">>,
     <<"1","1",":","0","0">>, <<"1","2",":","0","0">>,
     <<"1","3",":","0","0">>, <<"1","4",":","0","0">>,
     <<"1","5",":","0","0">>, <<"1","6",":","0","0">> >>

\* the part of the catalog the modelled users pick from
Slots == {timeSlots[i] : i \in 1..NumSlots}

\* the (professional, date, slot) triples requests are drawn from: the first
\* triple and every triple that differs from it in one component
SlotInputs ==
  {x \in Professionals \X Dates \X Slots :
     Cardinality({k \in 1..3 : x[k] # <<1, 1, timeSlots[1]>>[k]}) <= 1}

Statuses == {"scheduled", "completed", "cancelled", "no_show"}

\* selectedTime + ':00'
WithSeconds(slot) == slot \o <<":", "0", "0">>

\* a projection that cuts the time one character short
Substring04(time) == SubSeq(time, 1, 4)

\* a.time.substring(0, 5)
Substring05(time) == SubSeq(time, 1, 5)

Range(s) == {s[i] : i \in DOMAIN s}

\* data.map(f) over the rows of a query result
RECURSIVE MapTimes(_)
MapTimes(rows) ==
  IF rows = << >> THEN << >>
  ELSE <<Substring05(Head(rows).time)>> \o MapTimes(Tail(rows))

VARIABLES
  appointments,   \* the appointments table, a sequence of rows (index = id)
  result,         \* outcome of the latest request to the storage layer
  avail,          \* response to the latest booked-slot lookup
  frontend,       \* which time selector is deployed: "api" or "supabase"
  mounted,        \* per user: a time selector is on screen
  props,          \* per user: professionalId and date of the selector
  loading,        \* per user: useState loading
  booking,        \* per user: useState booking
  bookedSlots,    \* per user: useState bookedSlots
  selectedTime,   \* per user: useState selectedTime
  toast,          \* per user: title of the latest toast
  fetches,        \* per user: fetchBookedSlots calls awaiting their answer
  pc,             \* per user: where handleBook is suspended
  resp,           \* per user: answer to the latest insert of handleBook
  reselected,     \* per user: a slot was picked since the latest answer
  dialog,         \* the admin's appointment dialog: showDialog, editingId,
                  \* formData, title of the latest toast, latest request sent
  shown,          \* per user: the fetchBookedSlots call whose answer was the
                  \* latest to arrive: its professional and date, whether it
                  \* succeeded, and the table it was answered from
  now,            \* the wall clock: day and minute of the day
  accounts        \* auth users, professionals.user_id, user_roles

dbVars == <<appointments, result, avail>>
uiVars == <<frontend, mounted, props, loading, booking, bookedSlots,
            selectedTime, toast, fetches, pc, resp, reselected>>
auxVars == <<shown, now, accounts>>
vars == <<dbVars, uiVars, dialog, auxVars>>

\* ------------------------------------------------------------ the registry
\* CREATE UNIQUE INDEX ... ON appointments (professional_id, date, time)
\* WHERE status != 'cancelled'
SameSlot(a, b) ==
  /\ a.professional_id = b.professional_id
  /\ a.date = b.date
  /\ a.time = b.time

\* the index consulted for new rows only, never when a row is updated
UniqueViolationOnInsertOnly(table, row, id) ==
  /\ id = 0
  /\ row.status # "cancelled"
  /\ \E j \in DOMAIN table :
       /\ table[j].status # "cancelled"
       /\ SameSlot(table[j], row)

\* a plain unique index: cancelled rows keep their slot
UniqueViolationAnyStatus(table, row, id) ==
  \E j \in DOMAIN table : j # id /\ SameSlot(table[j], row)

\* would row, stored at position id, collide with another indexed row of table
UniqueViolation(table, row, id) ==
  /\ row.status # "cancelled"
  /\ \E j \in DOMAIN table :
       /\ j # id
       /\ table[j].status # "cancelled"
       /\ SameSlot(table[j], row)

\* "Users can create own appointments" WITH CHECK (auth.uid() = user_id);
\* "Admins can manage all appointments"
RlsInsertAllowed(caller, row) == caller = Admin \/ caller = row.user_id

\* "Users can view own appointments" USING (auth.uid() = user_id);
\* "Admins can manage all appointments"
RlsSelectAllowed(caller, row) == caller = Admin \/ caller = row.user_id

\* the professionals of a specialty (professional_specialties): the modelled
\* professionals come in pairs that share one
SpecialtyOf(p) == (p + 1) \div 2

\* the payload of handleBook's insert; status takes the column default
NewRow(u, p, d, t) ==
  [user_id |-> u, professional_id |-> p, specialty_id |-> SpecialtyOf(p),
   date |-> d, time |-> WithSeconds(t), status |-> "scheduled"]

\* an insert that never meets the index
InsertResultUnchecked(table, caller, row) ==
  IF ~RlsInsertAllowed(caller, row) THEN "42501" ELSE "ok"

\* what the storage layer answers to an insert: "ok" or the SQLSTATE
InsertResult(table, caller, row) ==
  IF ~RlsInsertAllowed(caller, row) THEN "42501"
  ELSE IF UniqueViolation(table, row, 0) THEN "23505"
  ELSE "ok"

\* a status update that reports success whatever the index says
UpdateResultAlwaysOk(table, id, s) == "ok"

\* what the storage layer answers to UPDATE ... SET status = s WHERE id = id
UpdateResult(table, id, s) ==
  IF UniqueViolation(table, [table[id] EXCEPT !.status = s], id)
    THEN "23505" ELSE "ok"

\* ----------------------------------------------------- availability query
Missing == 0

\* the texts of the error answers: the fixed one of the handler, the message
\* of the storage layer's error, the message of the exception req.json() throws
RequiredMessage == "professionalId and date are required"
ReadErrorMessage == "error.message of the query"
JsonErrorMessage == "error.message of req.json()"

\* the get-booked-slots function for a request whose body is a JSON object:
\* 400 without its inputs, 500 on a read error, else the times of the
\* professional's non-cancelled rows of the day. body: the key of the answer
GetBookedSlots(table, professionalId, date, readError) ==
  IF professionalId = Missing \/ date = Missing
    THEN [via |-> "function", status |-> 400, body |-> "error",
          error |-> RequiredMessage, bookedSlots |-> << >>]
  ELSE IF readError
    THEN [via |-> "function", status |-> 500, body |-> "error",
          error |-> ReadErrorMessage, bookedSlots |-> << >>]
  ELSE [via |-> "function", status |-> 200, body |-> "bookedSlots",
        error |-> "none",
        bookedSlots |-> MapTimes(SelectSeq(table, LAMBDA a :
                          /\ a.professional_id = professionalId
                          /\ a.date = date
                          /\ a.status # "cancelled"))]

\* the time selector's own select on the table, run with the caller's rights:
\* rows of the specialty on the date with status scheduled or completed
SelectBookedTimes(table, caller, specialtyId, date) ==
  MapTimes(SelectSeq(table, LAMBDA a :
    /\ RlsSelectAllowed(caller, a)
    /\ a.specialty_id = specialtyId
    /\ a.date = date
    /\ a.status \in {"scheduled", "completed"}))

NoAvail ==
  [via |-> "none", status |-> 0, body |-> "none", error |-> "none",
   bookedSlots |-> << >>]
NoResult == [op |-> "none", code |-> "none"]

\* ------------------------------------------------------- the time selector
NoTime == << >>
NoProps == [professionalId |-> Missing, date |-> Missing]
NoResp == [state |-> "none"]
Frontends == {"api", "supabase"}

\* the users whose time selector is followed step by step; the other users
\* appear through the requests their selectors send
Selectors == {1}

\* String.prototype.includes, on texts kept as sequences of words
Includes(text, part) ==
  \E k \in 0..(Len(text) - Len(part)) : SubSeq(text, k + 1, k + Len(part)) = part

\* what the supabase client hands back for a failed insert, by cause
PostgrestError(cause) ==
  CASE cause = "23505" ->
         [code |-> "23505",
          message |-> <<"duplicate", "key", "value", "violates", "unique",
                        "constraint">>]
    [] cause = "23503" ->
         [code |-> "23503",
          message |-> <<"insert", "or", "update", "on", "table", "violates",
                        "foreign", "key", "constraint">>]
    [] cause = "42501" ->
         [code |-> "42501",
          message |-> <<"new", "row", "violates", "row-level", "security",
                        "policy">>]
    [] OTHER ->
         [code |-> "", message |-> <<"TypeError:", "Failed", "to", "fetch">>]

\* the answers of POST /appointments to a failed insert: HTTP status and the
\* error text of the body (empty: no body the client can parse, or no text)
ApiErrorResponses(cause) ==
  CASE cause = "23505" ->
         {[status |-> 409, error |-> <<"Horário", "já", "ocupado">>],
          [status |-> 409, error |-> << >>]}
    [] cause = "23503" ->
         {[status |-> 400, error |-> <<"Profissional", "inválido">>],
          [status |-> 500, error |-> << >>]}
    [] cause = "42501" ->
         {[status |-> 403, error |-> <<"Acesso", "negado">>],
          [status |-> 401, error |-> <<"Token", "inválido">>]}
    [] OTHER -> {[status |-> 0, error |-> << >>]}

\* ApiClient.request: the Error thrown for a response that is not ok, or for
\* a fetch that failed (status 0)
RequestError(response) ==
  IF response.status = 0
    THEN [code |-> "", message |-> <<"Failed", "to", "fetch">>]
  ELSE [code |-> "",
        message |-> IF response.error # << >> THEN response.error
                    ELSE <<"Erro", "na", "requisição">>]

\* the test of handleBook's catch block
IsSlotTakenApi(error) ==
  \/ Includes(error.message, <<"Horário", "já", "ocupado">>)
  \/ Includes(error.message, <<"409">>)

IsSlotTakenSupabase(error) ==
  \/ Includes(error.message, <<"duplicate">>)
  \/ error.code = "23505"

\* every failure of the insert taken for a conflict
IsSlotTakenAnyError(fe, error) == TRUE

IsSlotTaken(fe, error) ==
  IF fe = "api" THEN IsSlotTakenApi(error) ELSE IsSlotTakenSupabase(error)

\* the causes an insert can fail for besides the unique index
OtherCauses == {"23503", "42501", "network"}

\* ---------------------------------------------------------------- the clock
MaxDay == 2
DayStart == 510
DayEnd == 630
TickMinutes == 30

\* the value of a decimal digit
Digit(ch) ==
  CASE ch = "0" -> 0 [] ch = "1" -> 1 [] ch = "2" -> 2 [] ch = "3" -> 3
    [] ch = "4" -> 4 [] ch = "5" -> 5 [] ch = "6" -> 6 [] ch = "7" -> 7
    [] ch = "8" -> 8 [] ch = "9" -> 9

\* Number(text) for a text of decimal digits
RECURSIVE Number(_)
Number(text) ==
  IF text = << >> THEN 0
  ELSE 10 * Number(SubSeq(text, 1, Len(text) - 1)) + Digit(text[Len(text)])

\* text.split(sep)
RECURSIVE Split(_, _)
Split(text, sep) ==
  IF \A i \in DOMAIN text : text[i] # sep THEN <<text>>
  ELSE LET k == CHOOSE i \in DOMAIN text :
                  text[i] = sep /\ \A j \in 1..(i - 1) : text[j] # sep
       IN <<SubSeq(text, 1, k - 1)>> \o Split(SubSeq(text, k + 1, Len(text)), sep)

\* isToday(date), for the clock read when the selector renders
IsToday(date, clock) == date = clock.day

\* a slot that counts as past only once its minute is over
isSlotPastStrict(slot, date, clock) ==
  IF ~IsToday(date, clock) THEN FALSE
  ELSE LET parts == Split(slot, ":")
       IN Number(parts[1]) * 60 + Number(parts[2]) < clock.minute

\* slotTime <= now, slotTime being today at the slot's hours and minutes
isSlotPast(slot, date, clock) ==
  IF ~IsToday(date, clock) THEN FALSE
  ELSE LET parts == Split(slot, ":")
       IN Number(parts[1]) * 60 + Number(parts[2]) <= clock.minute

\* timeSlots.filter(slot => !bookedSlots.includes(slot) && !isSlotPast(slot));
\* nothing can be picked while the spinner is shown
AvailableSlots(c) ==
  {slot \in Range(timeSlots) :
     /\ slot \notin Range(bookedSlots[c])
     /\ ~isSlotPast(slot, props[c].date, now)}

Selectable(c) ==
  IF mounted[c] /\ ~loading[c] THEN AvailableSlots(c) ELSE {}

\* no fetch has been answered yet
NoShown ==
  [professionalId |-> Missing, date |-> Missing, ok |-> FALSE,
   table |-> << >>]

InitUi ==
  /\ frontend \in Frontends
  /\ mounted = [c \in Users |-> FALSE]
  /\ props = [c \in Users |-> NoProps]
  /\ loading = [c \in Users |-> TRUE]
  /\ booking = [c \in Users |-> FALSE]
  /\ bookedSlots = [c \in Users |-> << >>]
  /\ selectedTime = [c \in Users |-> NoTime]
  /\ toast = [c \in Users |-> "none"]
  /\ fetches = [c \in Users |-> << >>]
  /\ pc = [c \in Users |-> "idle"]
  /\ resp = [c \in Users |-> NoResp]
  /\ reselected = [c \in Users |-> FALSE]
  /\ shown = [c \in Users |-> NoShown]
  /\ now = [day |-> 0, minute |-> DayStart]

\* the selector is rendered for a professional and a date: fresh state, and
\* the effect calls fetchBookedSlots
Mount(c, p, d) ==
  /\ ~mounted[c]
  /\ pc[c] = "idle"
  /\ mounted' = [mounted EXCEPT ![c] = TRUE]
  /\ props' = [props EXCEPT ![c] = [professionalId |-> p, date |-> d]]
  /\ loading' = [loading EXCEPT ![c] = TRUE]
  /\ booking' = [booking EXCEPT ![c] = FALSE]
  /\ bookedSlots' = [bookedSlots EXCEPT ![c] = << >>]
  /\ selectedTime' = [selectedTime EXCEPT ![c] = NoTime]
  /\ fetches' = [fetches EXCEPT ![c] =
                   <<[professionalId |-> p, date |-> d, origin |-> "effect"]>>]
  /\ reselected' = [reselected EXCEPT ![c] = FALSE]
  /\ shown' = [shown EXCEPT ![c] = NoShown]
  /\ UNCHANGED <<now, accounts, dialog, dbVars, frontend, toast, pc, resp>>

\* the selector on screen is rendered again with another professional or
\* date: its state is kept, and the effect calls fetchBookedSlots for the new
\* props while the calls made before go on
ChangeProps(c, p, d) ==
  /\ mounted[c]
  /\ props[c] # [professionalId |-> p, date |-> d]
  /\ Len(fetches[c]) < MaxFetches
  /\ props' = [props EXCEPT ![c] = [professionalId |-> p, date |-> d]]
  /\ fetches' = [fetches EXCEPT ![c] = Append(@,
                   [professionalId |-> p, date |-> d, origin |-> "effect"])]
  /\ UNCHANGED <<auxVars, dialog, dbVars, frontend, mounted, loading, booking,
                 bookedSlots, selectedTime, toast, pc, resp, reselected>>

\* time passes: half an hour, or over to the morning of the next day
Tick ==
  /\ now' = IF now.minute + TickMinutes <= DayEnd
              THEN [now EXCEPT !.minute = @ + TickMinutes]
            ELSE [day |-> now.day + 1, minute |-> DayStart]
  /\ now'.day <= MaxDay
  /\ UNCHANGED <<dbVars, uiVars, dialog, shown, accounts>>

RemoveAt(seq, i) == SubSeq(seq, 1, i - 1) \o SubSeq(seq, i + 1, Len(seq))

\* the booked slots fetchBookedSlots ends with, by the answer it gets:
\* "ok", "error" (an error answer) or "throw" (the call itself fails)
FetchedSlots(fe, c, f, outcome) ==
  IF fe = "api"
    THEN IF outcome = "ok"
           THEN GetBookedSlots(appointments, f.professionalId, f.date,
                               FALSE).bookedSlots
           ELSE << >>
  ELSE IF outcome = "ok"
         THEN SelectBookedTimes(appointments, c,
                                SpecialtyOf(f.professionalId), f.date)
       ELSE IF outcome = "error" THEN bookedSlots[c]
       ELSE << >>

\* a fetchBookedSlots call gets its answer and runs to its end
FetchDone(c, i, outcome) ==
  /\ mounted[c]
  /\ i \in DOMAIN fetches[c]
  /\ bookedSlots' = [bookedSlots EXCEPT ![c] =
                       FetchedSlots(frontend, c, fetches[c][i], outcome)]
  /\ loading' = [loading EXCEPT ![c] = FALSE]
  /\ fetches' = [fetches EXCEPT ![c] = RemoveAt(fetches[c], i)]
  /\ shown' = [shown EXCEPT ![c] =
                 [professionalId |-> fetches[c][i].professionalId,
                  date |-> fetches[c][i].date, ok |-> outcome = "ok",
                  table |-> IF outcome = "ok" THEN appointments ELSE << >>]]
  /\ UNCHANGED <<now, accounts, dialog, dbVars, frontend, mounted, props,
                 booking, selectedTime, toast, pc, resp, reselected>>

\* onClick of a slot button that is not disabled
SelectTime(c, slot) ==
  /\ slot \in Selectable(c)
  /\ selectedTime' = [selectedTime EXCEPT ![c] = slot]
  /\ reselected' = [reselected EXCEPT ![c] = TRUE]
  /\ UNCHANGED <<auxVars, dialog, dbVars, frontend, mounted, props, loading, booking,
                 bookedSlots, toast, fetches, pc, resp>>

\* another user's insert for the slot of row is on its way to the storage layer
Rival(c, row) ==
  \E o \in Users \ {c} :
    /\ pc[o] = "insert"
    /\ resp[o].state = "pending"
    /\ SameSlot(resp[o].row, row)

\* the request handleBook sends, not answered yet
Pending(c, row) ==
  [state |-> "pending", row |-> row, rival |-> Rival(c, row)]

\* handleBook up to its first await: the confirm button is shown with a
\* selected time and some open slot, and is disabled while booking
HandleBook(c) ==
  /\ mounted[c] /\ ~loading[c]
  /\ AvailableSlots(c) # {}
  /\ selectedTime[c] # NoTime
  /\ ~booking[c]
  /\ Len(fetches[c]) < MaxFetches
  /\ Len(appointments)
       + Cardinality({o \in Users : pc[o] = "insert"}) < MaxBookings
  /\ booking' = [booking EXCEPT ![c] = TRUE]
  /\ pc' = [pc EXCEPT ![c] = "insert"]
  /\ resp' = [resp EXCEPT ![c] =
       Pending(c, NewRow(c, props[c].professionalId, props[c].date,
                         selectedTime[c]))]
  /\ UNCHANGED <<auxVars, dialog, dbVars, frontend, mounted, props, loading, bookedSlots,
                 selectedTime, toast, fetches, reselected>>

\* handleBook of a user whose selector is not followed: the props and the
\* selected time are inputs, the insert request leaves the client
IssueBooking(c, p, d, t) ==
  /\ c \notin Selectors
  /\ pc[c] = "idle"
  /\ Len(appointments)
       + Cardinality({o \in Users : pc[o] = "insert"}) < MaxBookings
  /\ pc' = [pc EXCEPT ![c] = "insert"]
  /\ resp' = [resp EXCEPT ![c] = Pending(c, NewRow(c, p, d, t))]
  /\ UNCHANGED <<auxVars, dialog, dbVars, frontend, mounted, props, loading, booking,
                 bookedSlots, selectedTime, toast, fetches, reselected>>

\* the error handleBook catches for an insert that failed for cause
ErrorsSeen(fe, cause) ==
  IF fe = "api" THEN {RequestError(r) : r \in ApiErrorResponses(cause)}
  ELSE {PostgrestError(cause)}

\* the storage layer executes the insert of c and answers
StorageInsert(c) ==
  /\ pc[c] = "insert" /\ resp[c].state = "pending"
  /\ result' = [op |-> "insert",
                code |-> InsertResult(appointments, c, resp[c].row)]
  /\ appointments' = IF result'.code = "ok"
                       THEN Append(appointments, resp[c].row)
                       ELSE appointments
  /\ IF result'.code = "ok"
       THEN resp' = [resp EXCEPT ![c] =
                       [state |-> "ok", row |-> resp[c].row,
                        rival |-> resp[c].rival]]
       ELSE \E e \in ErrorsSeen(frontend, result'.code) :
              resp' = [resp EXCEPT ![c] =
                         [state |-> "failed", row |-> resp[c].row,
                          rival |-> resp[c].rival,
                          cause |-> result'.code, error |-> e]]
  /\ pc' = [pc EXCEPT ![c] = IF c \in Selectors THEN @ ELSE "idle"]
  /\ UNCHANGED <<auxVars, dialog, avail, frontend, mounted, props, loading, booking,
                 bookedSlots, selectedTime, toast, fetches, reselected>>

\* the insert of c fails before the index is consulted
InsertFails(c, cause) ==
  /\ pc[c] = "insert" /\ resp[c].state = "pending"
  /\ \E e \in ErrorsSeen(frontend, cause) :
       resp' = [resp EXCEPT ![c] =
                  [state |-> "failed", row |-> resp[c].row,
                   rival |-> resp[c].rival,
                   cause |-> cause, error |-> e]]
  /\ pc' = [pc EXCEPT ![c] = IF c \in Selectors THEN @ ELSE "idle"]
  /\ UNCHANGED <<auxVars, dialog, dbVars, frontend, mounted, props, loading, booking,
                 bookedSlots, selectedTime, toast, fetches, reselected>>

\* the storage layer executes the insert of c, but the answer does not reach
\* the client: its request ends with a network error
ResponseLost(c) ==
  /\ pc[c] = "insert" /\ resp[c].state = "pending"
  /\ result' = [op |-> "insert",
                code |-> InsertResult(appointments, c, resp[c].row)]
  /\ appointments' = IF result'.code = "ok"
                       THEN Append(appointments, resp[c].row)
                       ELSE appointments
  /\ \E e \in ErrorsSeen(frontend, "network") :
       resp' = [resp EXCEPT ![c] =
                  [state |-> "failed", row |-> resp[c].row,
                   rival |-> resp[c].rival,
                   cause |-> "lost", error |-> e]]
  /\ pc' = [pc EXCEPT ![c] = IF c \in Selectors THEN @ ELSE "idle"]
  /\ UNCHANGED <<auxVars, dialog, avail, frontend, mounted, props, loading, booking,
                 bookedSlots, selectedTime, toast, fetches, reselected>>

\* onComplete(): the parent closes the selector
OnComplete(c) ==
  /\ mounted' = [mounted EXCEPT ![c] = FALSE]
  /\ fetches' = [fetches EXCEPT ![c] = << >>]

\* toast 'Agendamento confirmado!', onComplete(), setBooking(false)
Confirmed(c) ==
  /\ toast' = [toast EXCEPT ![c] = "Agendamento confirmado!"]
  /\ OnComplete(c)
  /\ booking' = [booking EXCEPT ![c] = FALSE]
  /\ pc' = [pc EXCEPT ![c] = "idle"]
  /\ reselected' = [reselected EXCEPT ![c] = FALSE]
  /\ UNCHANGED <<auxVars, dialog, dbVars, frontend, props, loading, bookedSlots,
                 selectedTime, resp>>

\* handleBook sending its insert again by itself after a failure
BookingResponseRetrying(c) ==
  /\ pc[c] = "insert" /\ resp[c].state = "failed"
  /\ resp' = [resp EXCEPT ![c] = Pending(c, resp[c].row)]
  /\ UNCHANGED <<auxVars, dialog, dbVars, frontend, mounted, props, loading, booking,
                 bookedSlots, selectedTime, toast, fetches, pc, reselected>>

\* handleBook asking for the confirmation email whatever the answer was
BookingResponseEmailFirst(c) ==
  /\ pc[c] = "insert" /\ resp[c].state # "pending"
  /\ pc' = [pc EXCEPT ![c] = "email"]
  /\ UNCHANGED <<auxVars, dialog, dbVars, frontend, mounted, props, loading, booking,
                 bookedSlots, selectedTime, toast, fetches, resp, reselected>>

\* handleBook resumes with the answer to its insert
BookingResponse(c) ==
  /\ pc[c] = "insert" /\ resp[c].state # "pending"
  /\ IF resp[c].state = "ok"
       THEN IF frontend = "api"
              THEN /\ pc' = [pc EXCEPT ![c] = "email"]
                   /\ UNCHANGED <<auxVars, dialog, dbVars, frontend, mounted, props, loading,
                                  booking, bookedSlots, selectedTime, toast,
                                  fetches, resp, reselected>>
              ELSE Confirmed(c)
       ELSE /\ IF IsSlotTaken(frontend, resp[c].error)
                 THEN /\ toast' = [toast EXCEPT ![c] = "Horário indisponível"]
                      /\ fetches' = [fetches EXCEPT ![c] = Append(@,
                           [professionalId |-> props[c].professionalId,
                            date |-> props[c].date, origin |-> "conflict"])]
                 ELSE /\ toast' = [toast EXCEPT ![c] = "Erro ao agendar"]
                      /\ UNCHANGED fetches
            /\ booking' = [booking EXCEPT ![c] = FALSE]
            /\ pc' = [pc EXCEPT ![c] = "idle"]
            /\ reselected' = [reselected EXCEPT ![c] = FALSE]
            /\ UNCHANGED <<auxVars, dialog, dbVars, frontend, mounted, props, loading,
                           bookedSlots, selectedTime, resp>>

\* the date and time of the sendConfirmationEmail request: the values
\* handleBook holds, which are those it sent to createAppointment
ConfirmationEmail(c) ==
  [date |-> props[c].date, time |-> Substring05(resp[c].row.time)]

\* sendConfirmationEmail returns or throws; either way handleBook goes on
EmailResponse(c, sent) ==
  /\ pc[c] = "email"
  /\ Confirmed(c)

\* ------------------------------------------- the admin appointment dialog
\* useState formData: '' for user, professional and date, '09:00' for time
NoForm ==
  [user_id |-> Missing, professional_id |-> Missing, date |-> Missing,
   time |-> timeSlots[1]]

NoRequest == [professional_id |-> Missing]

InitDialog ==
  dialog = [showDialog |-> FALSE, editingId |-> Missing, formData |-> NoForm,
            toast |-> "none", request |-> NoRequest]

\* what the form controls can put into formData: a listed user, a listed
\* professional, a date or the emptied date input, a listed time
FormInputs ==
  ({"user_id"} \X Users) \cup ({"professional_id"} \X Professionals)
    \cup ({"date"} \X (Dates \cup {Missing})) \cup ({"time"} \X Slots)

HandleNew ==
  /\ dialog' = [dialog EXCEPT !.editingId = Missing, !.formData = NoForm,
                              !.showDialog = TRUE]
  /\ UNCHANGED <<auxVars, dbVars, uiVars>>

HandleEdit(id) ==
  /\ id \in DOMAIN appointments
  /\ dialog' = [dialog EXCEPT
       !.editingId = id,
       !.formData = [user_id |-> appointments[id].user_id,
                     professional_id |-> appointments[id].professional_id,
                     date |-> appointments[id].date,
                     time |-> Substring05(appointments[id].time)],
       !.showDialog = TRUE]
  /\ UNCHANGED <<auxVars, dbVars, uiVars>>

\* onValueChange / onChange of a form control
SetFormData(field, value) ==
  /\ dialog.showDialog
  /\ dialog' = [dialog EXCEPT !.formData[field] = value]
  /\ UNCHANGED <<auxVars, dbVars, uiVars>>

\* the Cancelar button
CloseDialog ==
  /\ dialog.showDialog
  /\ dialog' = [dialog EXCEPT !.showDialog = FALSE]
  /\ UNCHANGED <<auxVars, dbVars, uiVars>>

\* the test handleSave starts with
FormIncomplete(formData) ==
  \/ formData.user_id = Missing
  \/ formData.professional_id = Missing
  \/ formData.date = Missing

\* prof?.specialty || ''
Procedure(professionalId) ==
  IF professionalId \in Professionals THEN SpecialtyOf(professionalId)
  ELSE Missing

\* the body handleSave hands to api.createAppointment
SaveRequest(formData) ==
  [professional_id |-> formData.professional_id,
   procedure |-> Procedure(formData.professional_id),
   date |-> formData.date,
   time |-> formData.time \o <<":", "0", "0">>]

\* the row POST /appointments inserts for a request: the body names no user,
\* the owner is the user the request is authenticated as
CreatedRow(caller, data) ==
  [user_id |-> caller, professional_id |-> data.professional_id,
   specialty_id |-> data.procedure, date |-> data.date, time |-> data.time,
   status |-> "scheduled"]

\* handleSave that sends the form as it is
HandleSaveUnvalidated ==
  /\ dialog.showDialog
  /\ dialog.editingId = Missing
  /\ Len(appointments) < MaxBookings
  /\ result' = [op |-> "insert",
                code |-> InsertResult(appointments, Admin,
                           CreatedRow(Admin, SaveRequest(dialog.formData)))]
  /\ appointments' =
       IF result'.code = "ok"
         THEN Append(appointments,
                     CreatedRow(Admin, SaveRequest(dialog.formData)))
       ELSE appointments
  /\ dialog' = [dialog EXCEPT !.toast = "Agendamento criado.",
                              !.request = SaveRequest(dialog.formData)]
  /\ UNCHANGED <<auxVars, avail, uiVars>>

\* an edit-save that writes the form into the edited row
SaveEditedUpdating ==
  /\ dialog' = [dialog EXCEPT !.toast = "Agendamento atualizado.",
                              !.showDialog = FALSE]
  /\ appointments' = [appointments EXCEPT ![dialog.editingId] =
       [@ EXCEPT !.user_id = dialog.formData.user_id,
                 !.professional_id = dialog.formData.professional_id,
                 !.date = dialog.formData.date,
                 !.time = WithSeconds(dialog.formData.time)]]
  /\ result' = [op |-> "update", code |-> "ok"]

\* the branch of handleSave for editingId set: a toast, and no request
SaveEdited ==
  /\ dialog' = [dialog EXCEPT !.toast = "Agendamento atualizado.",
                              !.showDialog = FALSE]
  /\ UNCHANGED <<appointments, result>>

\* the Salvar button
HandleSave ==
  /\ dialog.showDialog
  /\ IF FormIncomplete(dialog.formData)
       THEN /\ dialog' = [dialog EXCEPT !.toast = "Preencha todos os campos."]
            /\ UNCHANGED <<appointments, result>>
     ELSE IF dialog.editingId # Missing
       THEN SaveEdited
     ELSE /\ Len(appointments) < MaxBookings
          /\ result' = [op |-> "insert",
                        code |-> InsertResult(appointments, Admin,
                          CreatedRow(Admin, SaveRequest(dialog.formData)))]
          /\ appointments' =
               IF result'.code = "ok"
                 THEN Append(appointments,
                             CreatedRow(Admin, SaveRequest(dialog.formData)))
               ELSE appointments
          /\ IF result'.code = "ok"
               THEN dialog' = [dialog EXCEPT
                      !.toast = "Agendamento criado.",
                      !.showDialog = FALSE,
                      !.request = SaveRequest(dialog.formData)]
             ELSE \E e \in ErrorsSeen("api", result'.code) :
                    dialog' = [dialog EXCEPT
                      !.toast = IF IsSlotTakenApi(e)
                                  THEN "Conflito de horário" ELSE "Erro",
                      !.request = SaveRequest(dialog.formData)]
  /\ UNCHANGED <<auxVars, avail, uiVars>>

\* -------------------------------------------- accounts of professionals
NumEmails == 2
Emails == 1..NumEmails

\* the id of the auth user created for an email address
NewUserId(email) == NumUsers + email

\* everyone who may ever sign in: the admin, the users, the accounts created
Identities == Callers \cup {NewUserId(e) : e \in Emails}

NoUser == -1
NoHeader == -1
InvalidToken == -2

InitAccounts ==
  accounts = [users |-> {},
              professionals |-> [p \in Professionals |-> NoUser],
              user_roles |-> [u \in Identities |->
                               IF u = Admin THEN "admin"
                               ELSE IF u \in Users THEN "user" ELSE "none"]]

\* supabaseAdmin.auth.getUser(token): the user the token was issued to
GetUser(token) ==
  IF token \in Callers \cup accounts.users THEN token ELSE NoUser

\* a role test every signed-in caller passes
IsAnyRole(callingUser) == TRUE

\* roleData?.role === "admin"
IsAdminRole(callingUser) == accounts.user_roles[callingUser] = "admin"

\* the answer of create-professional-account and the accounts it leaves:
\* preflight, 401 without a header or with a token of no user, 403 for a
\* caller who is no admin, 500 for a body that cannot be read, 400 when the
\* auth user cannot be created; else the user is created, the professional
\* linked and the role written, the last two unless their request fails
CreateAccountOutcome(method, authHeader, json, professionalId, email, createUserError, updateProfError, roleError) ==
  IF method = "OPTIONS" THEN [status |-> "200", accounts |-> accounts]
  ELSE IF authHeader = NoHeader THEN [status |-> "401", accounts |-> accounts]
  ELSE IF GetUser(authHeader) = NoUser
    THEN [status |-> "401", accounts |-> accounts]
  ELSE IF ~IsAdminRole(GetUser(authHeader))
    THEN [status |-> "403", accounts |-> accounts]
  ELSE IF ~json THEN [status |-> "500", accounts |-> accounts]
  ELSE IF createUserError \/ NewUserId(email) \in accounts.users
    THEN [status |-> "400", accounts |-> accounts]
  ELSE [status |-> "200",
        accounts |->
          [users |-> accounts.users \cup {NewUserId(email)},
           professionals |->
             IF updateProfError THEN accounts.professionals
             ELSE [accounts.professionals EXCEPT
                     ![professionalId] = NewUserId(email)],
           user_roles |->
             [accounts.user_roles EXCEPT ![NewUserId(email)] =
                IF roleError THEN "user" ELSE "professional"]]]

\* a request to the create-professional-account function
CreateProfessionalAccount(method, authHeader, json, professionalId, email, createUserError, updateProfError, roleError) ==
  LET outcome == CreateAccountOutcome(method, authHeader, json,
                   professionalId, email, createUserError, updateProfError,
                   roleError)
  IN /\ accounts' = outcome.accounts
     /\ result' = [op |-> "create-account", code |-> outcome.status,
                   method |-> method, authHeader |-> authHeader]
     /\ UNCHANGED <<appointments, avail, uiVars, dialog, shown, now>>

\* professional_id IN (SELECT id FROM professionals WHERE user_id = auth.uid())
IsProfessionalOf(caller, row) ==
  accounts.professionals[row.professional_id] = caller

\* the rows an UPDATE of appointments may touch: the USING expressions of
\* "Users can update own appointments", "Admins can manage all appointments"
\* and "Professionals can update their own appointments", any of them
RlsUpdateUsing(caller, row) ==
  \/ caller = Admin
  \/ caller = row.user_id
  \/ IsProfessionalOf(caller, row)

\* the rows an UPDATE may leave behind: none of the three policies has a
\* WITH CHECK, so each one's USING expression is applied to the new row
RlsUpdateCheck(caller, row) == RlsUpdateUsing(caller, row)

\* UPDATE appointments SET user_id = u WHERE id = id, sent by caller with the
\* caller's own token: a row the policies hide is not updated (no error), a
\* new row they turn down is SQLSTATE 42501
UpdateAppointmentOwner(caller, id, u) ==
  /\ id \in DOMAIN appointments
  /\ LET new == [appointments[id] EXCEPT !.user_id = u]
         code == IF ~RlsUpdateUsing(caller, appointments[id]) THEN "none"
                 ELSE IF ~RlsUpdateCheck(caller, new) THEN "42501"
                 ELSE "ok"
     IN /\ result' = [op |-> "update-owner", code |-> code,
                      caller |-> caller]
        /\ appointments' = IF code = "ok"
                             THEN [appointments EXCEPT ![id] = new]
                             ELSE appointments
  /\ UNCHANGED <<auxVars, avail, uiVars, dialog>>

InitDb ==
  /\ appointments = << >>
  /\ result = NoResult
  /\ avail = NoAvail

Init ==
  /\ InitDb
  /\ InitUi
  /\ InitDialog
  /\ InitAccounts

\* an insert whose row is written before the index is consulted and is not
\* taken back when the insert is refused
BookingInsertNoRollback(caller, u, p, d, t) ==
  /\ Len(appointments) < MaxRows
  /\ result' = [op |-> "insert",
                code |-> InsertResult(appointments, caller, NewRow(u, p, d, t))]
  /\ appointments' = Append(appointments, NewRow(u, p, d, t))
  /\ UNCHANGED <<auxVars, avail, uiVars, dialog>>

\* one Booking Transaction: a single insert, atomic against the index
BookingInsert(caller, u, p, d, t) ==
  /\ Len(appointments) < MaxRows
  /\ result' = [op |-> "insert",
                code |-> InsertResult(appointments, caller, NewRow(u, p, d, t))]
  /\ appointments' = IF result'.code = "ok"
                       THEN Append(appointments, NewRow(u, p, d, t))
                       ELSE appointments
  /\ UNCHANGED <<auxVars, avail, uiVars, dialog>>

\* PATCH /appointments/:id/status
UpdateAppointmentStatus(id, s) ==
  /\ id \in DOMAIN appointments
  /\ appointments[id].status # s
  /\ result' = [op |-> "status", code |-> UpdateResult(appointments, id, s)]
  /\ appointments' = IF result'.code = "ok"
                       THEN [appointments EXCEPT ![id].status = s]
                       ELSE appointments
  /\ UNCHANGED <<auxVars, avail, uiVars, dialog>>

\* PATCH /appointments/:id/cancel
CancelAppointment(id) ==
  /\ id \in DOMAIN appointments
  /\ appointments[id].status # "cancelled"
  /\ result' = [op |-> "cancel", code |-> "ok"]
  /\ appointments' = [appointments EXCEPT ![id].status = "cancelled"]
  /\ UNCHANGED <<auxVars, avail, uiVars, dialog>>

\* what the storage layer keeps of a lookup as its latest request; read: the
\* query on appointments was sent; again: the request answered just before
\* it, with no write since, was the same
Lookup(professionalId, date, readError) ==
  [op |-> "lookup", code |-> "none",
   professionalId |-> professionalId, date |-> date,
   read |-> professionalId # Missing /\ date # Missing,
   again |-> /\ ~readError
             /\ result.op = "lookup"
             /\ result.professionalId = professionalId
             /\ result.date = date
             /\ avail.via = "function"
             /\ avail.status = 200]

\* a lookup that clears the professional's cancelled rows of the day away
BookedSlotsRequestPurging(professionalId, date, readError) ==
  /\ avail' = GetBookedSlots(appointments, professionalId, date, readError)
  /\ result' = Lookup(professionalId, date, readError)
  /\ appointments' = SelectSeq(appointments, LAMBDA a :
                        ~ /\ a.professional_id = professionalId
                          /\ a.date = date
                          /\ a.status = "cancelled")
  /\ UNCHANGED <<auxVars, uiVars, dialog>>

\* a lookup that answers with the times not in its previous answer
BookedSlotsRequestDelta(professionalId, date, readError) ==
  /\ avail' = [GetBookedSlots(appointments, professionalId, date, readError)
                 EXCEPT !.bookedSlots =
                   SelectSeq(@, LAMBDA t : t \notin Range(avail.bookedSlots))]
  /\ result' = Lookup(professionalId, date, readError)
  /\ UNCHANGED <<auxVars, appointments, uiVars, dialog>>

\* a request to the get-booked-slots function
BookedSlotsRequest(professionalId, date, readError) ==
  /\ avail' = GetBookedSlots(appointments, professionalId, date, readError)
  /\ result' = Lookup(professionalId, date, readError)
  /\ UNCHANGED <<auxVars, appointments, uiVars, dialog>>

\* a request to the get-booked-slots function whose body req.json() cannot
\* read (no body, no JSON, null): the exception lands in the catch block
BookedSlotsRequestNoJson ==
  /\ avail' = [via |-> "function", status |-> 500, body |-> "error",
               error |-> JsonErrorMessage, bookedSlots |-> << >>]
  /\ result' = [op |-> "lookup", code |-> "none",
                professionalId |-> Missing, date |-> Missing,
                read |-> FALSE, again |-> FALSE]
  /\ UNCHANGED <<auxVars, appointments, uiVars, dialog>>

\* fetchBookedSlots of the time selector that reads the table itself
BookedSlotsSelect(caller, professionalId, date) ==
  /\ avail' = [via |-> "select", status |-> 200, body |-> "bookedSlots",
               error |-> "none",
               bookedSlots |-> SelectBookedTimes(appointments, caller,
                                 SpecialtyOf(professionalId), date)]
  /\ UNCHANGED <<auxVars, appointments, result, uiVars, dialog>>

\* the writes that reach the table
Next ==
  \/ \E caller \in Callers, u \in Users, x \in SlotInputs :
       BookingInsert(caller, u, x[1], x[2], x[3])
  \/ \E id \in 1..MaxRows, s \in Statuses : UpdateAppointmentStatus(id, s)
  \/ \E id \in 1..MaxRows : CancelAppointment(id)

Spec == Init /\ [][Next]_vars

\* the writes, and the lookups that read what they left
NextAvail ==
  \/ \E u \in Users, x \in SlotInputs :
       BookingInsert(u, u, x[1], x[2], x[3])
  \/ \E id \in 1..MaxRows, s \in Statuses : UpdateAppointmentStatus(id, s)
  \/ \E p \in Professionals \cup {Missing}, d \in Dates \cup {Missing},
        readError \in BOOLEAN : BookedSlotsRequest(p, d, readError)
  \/ \E caller \in Users, p \in Professionals, d \in Dates :
       BookedSlotsSelect(caller, p, d)

SpecAvail == Init /\ [][NextAvail]_vars

\* the users at their time selectors, and the storage layer answering them
NextUi ==
  \/ \E c \in Selectors, p \in Professionals, d \in Dates : Mount(c, p, d)
  \/ \E c \in Selectors, i \in 1..MaxFetches,
        outcome \in {"ok", "error", "throw"} : FetchDone(c, i, outcome)
  \/ \E c \in Selectors, slot \in Slots : SelectTime(c, slot)
  \/ \E c \in Selectors : HandleBook(c)
  \/ \E c \in Users, x \in SlotInputs : IssueBooking(c, x[1], x[2], x[3])
  \/ \E c \in Users : StorageInsert(c)
  \/ \E c \in Users, cause \in OtherCauses : InsertFails(c, cause)
  \/ \E c \in Users : ResponseLost(c)
  \/ \E c \in Selectors : BookingResponse(c)
  \/ \E c \in Selectors, sent \in BOOLEAN : EmailResponse(c, sent)

SpecUi == Init /\ [][NextUi]_vars

\* one user at the time selector, alone with the storage layer. The runtime
\* resumes handleBook once the insert is answered and the storage layer
\* answers every insert it receives; when the user acts, whether a fetch is
\* answered and whether the email service answers is up to them.
NextSolo ==
  \/ \E c \in Selectors, p \in Professionals, d \in Dates : Mount(c, p, d)
  \/ \E c \in Selectors, i \in 1..MaxFetches,
        outcome \in {"ok", "error", "throw"} : FetchDone(c, i, outcome)
  \/ \E c \in Selectors, slot \in Slots : SelectTime(c, slot)
  \/ \E c \in Selectors : HandleBook(c)
  \/ \E c \in Selectors : StorageInsert(c)
  \/ \E c \in Selectors : BookingResponse(c)
  \/ \E c \in Selectors, sent \in BOOLEAN : EmailResponse(c, sent)

SpecSolo ==
  /\ Init
  /\ [][NextSolo]_vars
  /\ \A c \in Selectors : WF_vars(StorageInsert(c))
  /\ \A c \in Selectors : WF_vars(BookingResponse(c))

\* a selector whose professional or date changes while it is on screen, and
\* the bookings of the users
NextProps ==
  \/ \E c \in Selectors, p \in Professionals, d \in Dates : Mount(c, p, d)
  \/ \E c \in Selectors, p \in Professionals, d \in Dates :
       ChangeProps(c, p, d)
  \/ \E c \in Selectors, i \in 1..MaxFetches,
        outcome \in {"ok", "error", "throw"} : FetchDone(c, i, outcome)
  \/ \E u \in Users, x \in SlotInputs :
       BookingInsert(u, u, x[1], x[2], x[3])

SpecProps == Init /\ [][NextProps]_vars

\* a selector on screen while time passes and users book
NextClock ==
  \/ \E c \in Selectors, p \in Professionals, d \in Dates : Mount(c, p, d)
  \/ \E c \in Selectors, i \in 1..MaxFetches,
        outcome \in {"ok", "error", "throw"} : FetchDone(c, i, outcome)
  \/ \E c \in Selectors, slot \in Slots : SelectTime(c, slot)
  \/ \E u \in Users, x \in SlotInputs :
       BookingInsert(u, u, x[1], x[2], x[3])
  \/ Tick

SpecClock == Init /\ [][NextClock]_vars

\* requests to create-professional-account, from anyone
NextAccounts ==
  \E method \in {"OPTIONS", "POST"},
     authHeader \in Identities \cup {NoHeader, InvalidToken},
     json \in BOOLEAN, p \in Professionals, e \in Emails,
     createUserError \in BOOLEAN, updateProfError \in BOOLEAN,
     roleError \in BOOLEAN :
    CreateProfessionalAccount(method, authHeader, json, p, e,
                              createUserError, updateProfError, roleError)

SpecAccounts == Init /\ [][NextAccounts]_vars

\* everyone who is no admin, the accounts made for professionals included,
\* writing to appointments with their own token, while the admin creates
\* those accounts; user_id references an existing user
NonAdmins == Identities \ {Admin}

\* the rows the appointments table holds while owners are reassigned
MaxOwned == 2

NextRls ==
  \/ \E caller \in NonAdmins \cap (Callers \cup accounts.users),
        u \in Callers \cup accounts.users, x \in SlotInputs :
       /\ Len(appointments) < MaxOwned
       /\ BookingInsert(caller, u, x[1], x[2], x[3])
  \/ \E caller \in NonAdmins \cap (Callers \cup accounts.users),
        id \in 1..MaxRows, u \in Callers \cup accounts.users :
       UpdateAppointmentOwner(caller, id, u)
  \/ \E p \in Professionals, e \in Emails :
       CreateProfessionalAccount("POST", Admin, TRUE, p, e,
                                 FALSE, FALSE, FALSE)

SpecRls == Init /\ [][NextRls]_vars

\* the admin at the appointment dialog and the appointment list
NextAdmin ==
  \/ HandleNew
  \/ \E id \in 1..MaxRows : HandleEdit(id)
  \/ \E x \in FormInputs : SetFormData(x[1], x[2])
  \/ CloseDialog
  \/ HandleSave
  \/ \E id \in 1..MaxRows : CancelAppointment(id)

SpecAdmin == Init /\ [][NextAdmin]_vars

\* bookings and cancellations, and lookups through the function
NextLookup ==
  \/ \E u \in Users, x \in SlotInputs :
       BookingInsert(u, u, x[1], x[2], x[3])
  \/ \E id \in 1..MaxRows : CancelAppointment(id)
  \/ \E p \in Professionals \cup {Missing}, d \in Dates \cup {Missing},
        readError \in BOOLEAN : BookedSlotsRequest(p, d, readError)
  \/ BookedSlotsRequestNoJson

SpecLookup == Init /\ [][NextLookup]_vars

\* ------------------------------------------------------------------ claims
ActiveAt(table, p, d, time) ==
  {j \in DOMAIN table : /\ table[j].status # "cancelled"
                        /\ table[j].professional_id = p
                        /\ table[j].date = d
                        /\ table[j].time = time}

\* C1: in every reachable state of the table each (professional, date, time)
\* has at most one appointment whose status is not 'cancelled'.
C1_AtMostOneActivePerSlot ==
  \A i, j \in DOMAIN appointments :
    (/\ i # j
     /\ appointments[i].status # "cancelled"
     /\ appointments[j].status # "cancelled")
      => ~SameSlot(appointments[i], appointments[j])

\* a slot that holds a cancelled row, an un-cancelled one besides it, after a
\* status update was turned down
C1_Witness ==
  /\ result = [op |-> "status", code |-> "23505"]
  /\ \E i, j \in DOMAIN appointments :
       /\ i # j
       /\ SameSlot(appointments[i], appointments[j])
       /\ appointments[i].status = "cancelled"
       /\ appointments[j].status \in {"completed", "no_show"}

\* C3: when every appointment at (P, D, T) is cancelled, and at least one is,
\* the next booking insert at (P, D, T) by any user succeeds, adds its row
\* and leaves the cancelled rows in the table.
C3_CancellationFreesSlot ==
  [][\A u \in Users, x \in SlotInputs :
       (/\ BookingInsert(u, u, x[1], x[2], x[3])
        /\ ActiveAt(appointments, x[1], x[2], WithSeconds(x[3])) = {}
        /\ \E j \in DOMAIN appointments :
             SameSlot(appointments[j], NewRow(u, x[1], x[2], x[3])))
         => /\ result'.code = "ok"
            /\ appointments' =
                 Append(appointments, NewRow(u, x[1], x[2], x[3]))]_vars

\* a slot booked by one user, cancelled, and booked again by another
C3_Witness ==
  /\ result = [op |-> "insert", code |-> "ok"]
  /\ \E i, j \in DOMAIN appointments :
       /\ i < j
       /\ j = Len(appointments)
       /\ SameSlot(appointments[i], appointments[j])
       /\ appointments[i].status = "cancelled"
       /\ appointments[j].status = "scheduled"
       /\ appointments[i].user_id # appointments[j].user_id

C5_AvailabilityMatchesTable ==
  [][\A caller \in Users, p \in Professionals, d \in Dates :
       (\/ BookedSlotsRequest(p, d, FALSE)
        \/ BookedSlotsSelect(caller, p, d))
         => \A t \in Slots :
              t \in Range(avail'.bookedSlots)
                <=> ActiveAt(appointments, p, d, WithSeconds(t)) # {}]_vars

\* ------------------------------------------------ claims on the selectors
RowsAt(table, row) == {j \in DOMAIN table : SameSlot(table[j], row)}

\* the users whose latest insert for the slot of row the index has answered
Answered(row) ==
  {c \in Users : /\ resp[c].state \in {"ok", "failed"}
                 /\ SameSlot(resp[c].row, row)
                 /\ resp[c].state = "failed" => resp[c].cause = "23505"}

\* C2: of the booking inserts sent for one free (professional, date, time),
\* whatever the order in which the storage layer executes them, exactly one
\* succeeds and creates a 'scheduled' row; every other one is answered with
\* the unique violation.
C2_ExactlyOneWins ==
  \A c \in Users :
    (resp[c].state \in {"ok", "failed"} /\ c \in Answered(resp[c].row)) =>
      /\ Cardinality(RowsAt(appointments, resp[c].row)) = 1
      /\ \A j \in RowsAt(appointments, resp[c].row) :
           /\ appointments[j].status = "scheduled"
           /\ resp[c].state = "ok" => appointments[j].user_id = c
      /\ Cardinality({o \in Answered(resp[c].row) : resp[o].state = "ok"}) <= 1
      /\ \A o \in Answered(resp[c].row) :
           resp[o].state # "ok" => resp[o].cause = "23505"

\* two inserts for one slot were on their way together; the one sent second
\* won, the other was answered with the unique violation
C2_Witness ==
  \E c, o \in Users :
    /\ c # o
    /\ resp[c].state = "ok" /\ resp[c].rival
    /\ resp[o].state = "failed" /\ resp[o].cause = "23505"
    /\ SameSlot(resp[c].row, resp[o].row)
    /\ c \in Selectors

\* C6: a fetchBookedSlots call that fails never makes a slot selectable that
\* was not selectable before it.
C6_FailedFetchOpensNothing ==
  [][\A c \in Selectors, i \in 1..MaxFetches, outcome \in {"error", "throw"} :
       (FetchDone(c, i, outcome) /\ ~FetchDone(c, i, "ok"))
         => Selectable(c)' \subseteq Selectable(c)]_vars

\* C7: whenever the insert of handleBook was turned down by the unique index,
\* the toast shown is the slot-taken one.
C7_ConflictShownAsTaken ==
  \A c \in Selectors :
    (/\ pc[c] = "idle"
     /\ resp[c].state = "failed"
     /\ resp[c].cause = "23505")
      => toast[c] = "Horário indisponível"

\* C8: when the insert of handleBook failed for another cause than the unique
\* index, the toast is the generic one and no fetchBookedSlots call is made.
C8_OtherFailureGeneric ==
  [][\A c \in Selectors :
       (/\ BookingResponse(c)
        /\ resp[c].state = "failed"
        /\ resp[c].cause \in OtherCauses)
         => /\ toast'[c] = "Erro ao agendar"
            /\ fetches'[c] = fetches[c]]_vars

\* a generic failure was shown for a failure that was no conflict, with the
\* selector still on screen
C8_Witness ==
  \E c \in Selectors :
    /\ mounted[c] /\ pc[c] = "idle" /\ ~booking[c]
    /\ resp[c].state = "failed"
    /\ resp[c].cause \in OtherCauses
    /\ toast[c] = "Erro ao agendar"

\* a fetchBookedSlots call made for a conflict has not been answered yet
RecoveryPending(c) ==
  \E k \in DOMAIN fetches[c] : fetches[c][k].origin = "conflict"

\* C9: after an insert was turned down by the unique index the selector calls
\* fetchBookedSlots for its professional and date, and sends no further
\* insert before that call has been answered.
C9_RequeryBeforeRetry ==
  [][\A c \in Selectors :
       /\ (/\ BookingResponse(c)
           /\ resp[c].state = "failed"
           /\ resp[c].cause = "23505")
            => \E k \in DOMAIN fetches'[c] :
                 /\ fetches'[c][k].origin = "conflict"
                 /\ fetches'[c][k].professionalId = props[c].professionalId
                 /\ fetches'[c][k].date = props[c].date
       /\ HandleBook(c) => ~RecoveryPending(c)]_vars

\* C10: after an insert was turned down by the unique index the selector
\* sends no further insert until a slot has been picked again.
C10_NoRetryWithoutNewChoice ==
  [][\A c \in Selectors :
       (/\ HandleBook(c)
        /\ resp[c].state = "failed"
        /\ resp[c].cause = "23505")
         => reselected[c]]_vars

\* C11: a request for an insert leaves the selector only when confirm is
\* pressed; the storage layer executes each request once; and handleBook,
\* resuming with the answer, whatever it is, sends no request of its own.
C11_OneInsertPerConfirmation ==
  [][\A c \in Selectors :
       /\ (resp'[c] # resp[c] /\ resp'[c].state = "pending") => HandleBook(c)
       /\ (\/ StorageInsert(c)
           \/ ResponseLost(c)
           \/ \E cause \in OtherCauses : InsertFails(c, cause))
            => resp[c].state = "pending" /\ resp'[c].state # "pending"
       /\ BookingResponse(c) => resp'[c] = resp[c] /\ pc'[c] # "insert"]_vars

\* the selector at rest after a conflict: the toast is shown, nothing is on
\* its way to the storage layer
C11_Witness ==
  \E c \in Selectors :
    /\ mounted[c] /\ pc[c] = "idle" /\ ~booking[c]
    /\ resp[c].state = "failed" /\ resp[c].cause = "23505"
    /\ toast[c] = "Horário indisponível"

\* the failures that leave the client without the storage layer's answer
Unanswered == {"network", "lost"}

\* C12: when the insert request ends without a definite answer, handleBook
\* calls fetchBookedSlots for its professional and date, and the requested
\* slot is not left selectable on the strength of the old list.
C12_RequeryWhenUnanswered ==
  [][\A c \in Selectors :
       (/\ BookingResponse(c)
        /\ resp[c].state = "failed"
        /\ resp[c].cause \in Unanswered)
         => /\ Len(fetches'[c]) = Len(fetches[c]) + 1
            /\ fetches'[c][Len(fetches'[c])].professionalId
                 = props[c].professionalId
            /\ fetches'[c][Len(fetches'[c])].date = props[c].date
            /\ Substring05(resp[c].row.time) \notin Selectable(c)']_vars

\* C13: sendConfirmationEmail is requested only by a handleBook whose insert
\* was answered with success, when the row is in the table, and for the date
\* and time of that row; a failed insert is never followed by the request.
C13_EmailOnlyAfterSuccess ==
  [][\A c \in Selectors :
       /\ (pc'[c] = "email" /\ pc[c] # "email")
            => /\ BookingResponse(c)
               /\ resp[c].state = "ok"
               /\ \E j \in DOMAIN appointments :
                    /\ appointments[j] = resp[c].row
                    /\ appointments[j].date = ConfirmationEmail(c).date
                    /\ Substring05(appointments[j].time)
                         = ConfirmationEmail(c).time
       /\ (BookingResponse(c) /\ resp[c].state = "failed")
            => pc'[c] # "email"]_vars

\* the email request is on its way for a row another user competed for
C13_Witness ==
  \E c \in Selectors :
    /\ pc[c] = "email"
    /\ resp[c].state = "ok"
    /\ \E o \in Users \ {c} :
         /\ resp[o].state = "failed"
         /\ SameSlot(resp[o].row, resp[c].row)

\* C14: once the insert has succeeded, an answer of the email service, good
\* or bad, leaves the table alone and is followed by the confirmation (toast
\* and onComplete); and the confirmation is reached in the end whether the
\* email service answers or not.
C14_EmailNeverBlocks ==
  /\ [][\A c \in Selectors, sent \in BOOLEAN :
          EmailResponse(c, sent)
            => /\ appointments' = appointments
               /\ toast'[c] = "Agendamento confirmado!"
               /\ ~mounted'[c]]_vars
  /\ \A c \in Selectors :
       (pc[c] = "email") ~> (pc[c] = "idle" /\ ~mounted[c])

\* a part of the dialog's booking request is missing or empty
FormMissing(formData) ==
  \/ formData.user_id = Missing
  \/ formData.professional_id = Missing
  \/ formData.date = Missing
  \/ formData.time = NoTime
  \/ Procedure(formData.professional_id) = Missing

HandleBookRequestComplete ==
  \A c \in Selectors :
    resp[c].state = "pending"
      => /\ resp[c].row.professional_id \in Professionals
         /\ resp[c].row.date \in Dates
         /\ Substring05(resp[c].row.time) \in Slots
         /\ resp[c].row.user_id = c
         /\ resp[c].row.specialty_id # Missing

\* C16: a new-appointment form saved with success adds exactly one row to the
\* table: 'scheduled', for the professional, date and time of the form, and
\* owned by the user chosen in the form.
C16_RowAsRequested ==
  [][(/\ HandleSave
      /\ dialog.editingId = Missing
      /\ dialog'.toast = "Agendamento criado."
      /\ ~FormIncomplete(dialog.formData))
       => /\ Len(appointments') = Len(appointments) + 1
          /\ SubSeq(appointments', 1, Len(appointments)) = appointments
          /\ LET row == appointments'[Len(appointments')]
             IN /\ row.status = "scheduled"
                /\ row.professional_id = dialog.formData.professional_id
                /\ row.date = dialog.formData.date
                /\ row.time = WithSeconds(dialog.formData.time)
                /\ row.user_id = dialog.formData.user_id]_vars

\* C17: a booking insert the storage layer refuses (the unique index, a
\* policy) leaves the appointments table exactly as it was.
C17_FailedBookingChangesNothing ==
  [][\A caller \in Callers, u \in Users, x \in SlotInputs :
       (BookingInsert(caller, u, x[1], x[2], x[3]) /\ result'.code # "ok")
         => appointments' = appointments]_vars

\* an insert was refused while the table held an active and a cancelled row
C17_Witness ==
  /\ result.op = "insert"
  /\ result.code # "ok"
  /\ \E i, j \in DOMAIN appointments :
       /\ appointments[i].status = "cancelled"
       /\ appointments[j].status = "scheduled"

\* C18: a lookup, whatever its inputs and whether or not the read fails,
\* leaves the appointments table as it was.
C18_LookupReadOnly ==
  [][\A p \in Professionals \cup {Missing}, d \in Dates \cup {Missing},
        readError \in BOOLEAN :
       BookedSlotsRequest(p, d, readError) => appointments' = appointments]_vars

\* a lookup failed on a table that holds an active and a cancelled row
C18_Witness ==
  /\ result.op = "lookup"
  /\ avail.status = 500
  /\ \E i, j \in DOMAIN appointments :
       /\ appointments[i].status = "cancelled"
       /\ appointments[j].status # "cancelled"

NoDuplicates(seq) == \A i, j \in DOMAIN seq : seq[i] = seq[j] => i = j

\* C20: the bookedSlots of an answer to an availability lookup, through the
\* function or through the time selector's own select, holds no time twice.
C20_BookedSlotsDistinct ==
  avail.via \in {"function", "select"} => NoDuplicates(avail.bookedSlots)

\* the list on the screen of c is the answer of a successful fetchBookedSlots
\* for its professional and date, and nothing was written since
ListCurrent(c) ==
  /\ mounted[c] /\ ~loading[c]
  /\ shown[c].ok
  /\ shown[c].professionalId = props[c].professionalId
  /\ shown[c].date = props[c].date
  /\ shown[c].table = appointments

\* C21: when the list on the screen is the answer of a successful fetch and
\* the table has not been written since, the insert for a slot the selector
\* shows open is not turned down by the unique index.
C21_OpenSlotBookable ==
  [][\A c \in Selectors :
       (/\ StorageInsert(c)
        /\ ListCurrent(c)
        /\ Substring05(resp[c].row.time) \in Selectable(c))
         => result'.code # "23505"]_vars

\* every slot of the catalog, stored with ':00' and projected by the lookup,
\* comes back as the string it was
CatalogRoundTrip ==
  \A s \in Range(timeSlots) :
    /\ Len(s) = 5
    /\ MapTimes(<<[time |-> WithSeconds(s)]>>) = <<s>>

\* C22: handleBook sends the selected catalog slot followed by ':00'; and a
\* successful fetch through the get-booked-slots lookup returns, for every
\* non-cancelled row of its professional and date, exactly the catalog slot the
\* row was booked with, which the selector then shows as taken.
C22_BookedSlotShownTaken ==
  [][/\ CatalogRoundTrip
     /\ \A c \in Selectors :
         /\ HandleBook(c)
              => /\ selectedTime[c] \in Range(timeSlots)
                 /\ resp'[c].row.time = selectedTime[c] \o <<":", "0", "0">>
         /\ \A i \in DOMAIN fetches[c] :
              (FetchDone(c, i, "ok") /\ frontend = "api")
                => \A j \in DOMAIN appointments :
                     (/\ appointments[j].professional_id
                           = fetches[c][i].professionalId
                      /\ appointments[j].date = fetches[c][i].date
                      /\ appointments[j].status # "cancelled")
                       => \E s \in Range(timeSlots) :
                            /\ appointments[j].time = s \o <<":", "0", "0">>
                            /\ s \in Range(bookedSlots'[c])
                            /\ s \notin Selectable(c)']_vars

\* the selector was opened again after its own booking went through, and the
\* fetch shows the slot it booked as taken
C22_Witness ==
  \E c \in Selectors :
    /\ frontend = "api"
    /\ mounted[c] /\ ~loading[c]
    /\ resp[c].state = "ok"
    /\ resp[c].row \in Range(appointments)
    /\ resp[c].row.professional_id = props[c].professionalId
    /\ resp[c].row.date = props[c].date
    /\ \E s \in Slots : /\ resp[c].row.time = WithSeconds(s)
                        /\ s \in Range(bookedSlots[c])

\* C23: once every fetchBookedSlots call of a selector has been answered, the
\* latest answer was a success and the table has not been written since, the
\* booked slots on the screen are those of the selector's current professional
\* and date, in whatever order the answers arrived.
C23_ListForCurrentProps ==
  \A c \in Selectors :
    (/\ mounted[c] /\ ~loading[c]
     /\ fetches[c] = << >>
     /\ shown[c].ok
     /\ shown[c].table = appointments)
      => bookedSlots[c] = FetchedSlots(frontend, c, props[c], "ok")

\* C24: confirm is taken only while no booking of the selector is under way,
\* so that at most one insert request of a selector is in flight; and whenever
\* the booking flag is set it is reset in the end, whatever the insert and the
\* confirmation email come to.
C24_BookingFlagReset ==
  /\ [][\A c \in Selectors :
          HandleBook(c) => /\ ~booking[c]
                           /\ pc[c] = "idle"
                           /\ resp[c].state # "pending"]_vars
  /\ \A c \in Selectors : booking[c] ~> ~booking[c]

\* the minute of the day the k-th slot of the hourly catalog starts at
CatalogMinute(slot) == (8 + CHOOSE k \in DOMAIN timeSlots : timeSlots[k] = slot) * 60

\* the slot's time, on the selector's date, is at or before the clock's
Past(c, slot) ==
  /\ props[c].date = now.day
  /\ CatalogMinute(slot) <= now.minute

JsonBodyErrors ==
  \A p \in Professionals \cup {Missing}, d \in Dates \cup {Missing},
     readError \in BOOLEAN :
    BookedSlotsRequest(p, d, readError)
      => /\ (p = Missing \/ d = Missing)
              => /\ avail'.status = 400
                 /\ avail'.body = "error"
                 /\ ~result'.read
         /\ (p # Missing /\ d # Missing /\ readError)
              => /\ avail'.status = 500
                 /\ avail'.body = "error"
                 /\ avail'.error = ReadErrorMessage

\* C26: a request to the lookup that lacks professionalId or date is answered
\* 400 with an error and sends no query to the appointments table; a query
\* that fails is answered 500 with the message of the error and no bookedSlots.
C26_LookupErrors ==
  [][/\ JsonBodyErrors
     /\ BookedSlotsRequestNoJson
          => /\ avail'.status = 400
             /\ avail'.body = "error"
             /\ ~result'.read]_vars

\* C28: Salvar with editingId set, whatever the form holds, sends no request:
\* the appointments table is left as it was, and with it the uniqueness of
\* its active slots.
C28_EditSaveChangesNothing ==
  [][(HandleSave /\ dialog.editingId # Missing)
       => /\ appointments' = appointments
          /\ result' = result
          /\ dialog'.request = dialog.request
          /\ C1_AtMostOneActivePerSlot => C1_AtMostOneActivePerSlot']_vars

\* an edit was saved with a form that names the slot of another active row
C28_Witness ==
  /\ ~dialog.showDialog
  /\ dialog.editingId \in DOMAIN appointments
  /\ dialog.toast = "Agendamento atualizado."
  /\ \E j \in DOMAIN appointments :
       /\ j # dialog.editingId
       /\ appointments[j].status # "cancelled"
       /\ appointments[dialog.editingId].status # "cancelled"
       /\ appointments[j].professional_id = dialog.formData.professional_id
       /\ appointments[j].date = dialog.formData.date
       /\ appointments[j].time = WithSeconds(dialog.formData.time)

\* the caller of a create-professional-account request is a known user whose
\* role is 'admin'
AdminToken(authHeader) ==
  /\ authHeader \in Callers \cup accounts.users
  /\ accounts.user_roles[authHeader] = "admin"

\* C29 as stated: a request changes the accounts only when its Authorization
\* header holds the token of an admin; every request without a header or with
\* the token of no user is answered 401, every request of a caller who is no
\* admin 403, and none of them creates a user, links a professional or
\* writes a role.
C29_AsStated ==
  [][result'.op = "create-account"
       => LET authHeader == result'.authHeader
          IN /\ accounts' # accounts => AdminToken(authHeader)
             /\ ~AdminToken(authHeader)
                  => /\ accounts' = accounts
                     /\ result'.code =
                          IF authHeader \in Callers \cup accounts.users
                            THEN "403" ELSE "401"]_vars

\* C29: a request changes the accounts only when it is no preflight and its
\* Authorization header holds the token of an admin; every other request
\* creates no user, links no professional and writes no role, and, unless it
\* is an OPTIONS preflight, is answered 401 without a header or with the token
\* of no user, and 403 for a caller who is no admin.
C29_OnlyAdminsCreate ==
  [][result'.op = "create-account"
       => LET authHeader == result'.authHeader
              method == result'.method
          IN /\ accounts' # accounts
                  => method # "OPTIONS" /\ AdminToken(authHeader)
             /\ ~AdminToken(authHeader)
                  => /\ accounts' = accounts
                     /\ method # "OPTIONS"
                          => result'.code =
                               IF authHeader \in Callers \cup accounts.users
                                 THEN "403" ELSE "401"]_vars

\* an account exists, its professional is linked, and the latest request, by
\* a caller who is no admin, was turned down with 403
C29_Witness ==
  /\ result.op = "create-account"
  /\ result.code = "403"
  /\ result.method = "POST"
  /\ \E p \in Professionals :
       /\ accounts.professionals[p] \in accounts.users
       /\ accounts.user_roles[accounts.professionals[p]] = "professional"
  /\ accounts.users # {NewUserId(e) : e \in Emails}

\* an insert by a caller who is no admin stores a row only when the row's
\* user_id is the caller
InsertOwnedByCaller ==
  [][(result'.op = "insert" /\ Len(appointments') > Len(appointments))
       => \A caller \in NonAdmins, u \in Identities, x \in SlotInputs :
            BookingInsert(caller, u, x[1], x[2], x[3]) => u = caller]_vars

\* a caller who is no admin and no professional's account leaves every row's
\* owner as it is, unless the new owner is the caller
PlainUsersKeepOwners ==
  [][(result'.op = "update-owner"
        /\ \A p \in Professionals :
             accounts.professionals[p] # result'.caller)
       => \A id \in DOMAIN appointments :
            \/ appointments'[id].user_id = appointments[id].user_id
            \/ appointments'[id].user_id = result'.caller]_vars

\* C27: an insert into appointments by a caller who is no admin is accepted
\* only if the new row's user_id is the caller, and no operation of a caller
\* who is no admin makes a row owned by another user: after each of their
\* writes, every row that is new or has a new owner is owned by the caller.
C27_NoForeignOwner ==
  [][/\ (result'.op = "insert" /\ Len(appointments') > Len(appointments))
          => \A caller \in NonAdmins, u \in Identities, x \in SlotInputs :
               BookingInsert(caller, u, x[1], x[2], x[3]) => u = caller
     /\ (result'.op = "update-owner" /\ result'.caller # Admin)
          => \A id \in DOMAIN appointments :
               \/ appointments'[id].user_id = appointments[id].user_id
               \/ appointments'[id].user_id = result'.caller]_vars
====
